---- MODULE Spec2Model ----
(***************************************************************************)
(* CacheService (machine_learning/src/services/cache_service.py): a        *)
(* read-through cache over a Redis backend, with md5-derived keys and      *)
(* glob-pattern invalidation.  Callers run the service's methods           *)
(* concurrently against one shared store; every backend call is one        *)
(* atomic step and may raise.                                              *)
(***************************************************************************)
EXTENDS Integers, Sequences, FiniteSets, TLC

VARIABLES store, now, call, nops, lastw
vars == <<store, now, call, nops, lastw>>

(***************************************************************************)
(* Bounds of the model.                                                    *)
(***************************************************************************)
MaxOps == 2
MaxTime == 2
MaxIds == 3

Callers == {"c1", "c2"}

(***************************************************************************)
(* Python values.                                                          *)
(***************************************************************************)
None == [t |-> "none"]
PyInt(i) == [t |-> "int", i |-> i]
PyStr(s) == [t |-> "str", s |-> s]

\* Python's `a or b` on an Optional[int]: None and 0 are falsy.
py_or(a, b) == IF a = None \/ a.i = 0 THEN b ELSE a.i

(***************************************************************************)
(* Key codec: _generate_cache_key.                                         *)
(***************************************************************************)
\* The parameter names of the model, in the order sort_keys=True puts them.
SortedNames == <<"gateway_id", "player_id", "workspace_id">>

\* A key derivation that keeps the parameters whose value is None.
clean_kwargs_keeping(kwargs) == kwargs

clean_kwargs(kwargs) ==
    [k \in {n \in DOMAIN kwargs : kwargs[n] # None} |-> kwargs[k]]

json_value(v) ==
    IF v.t = "none" THEN "null"
    ELSE IF v.t = "int" THEN ToString(v.i) ELSE "\"" \o v.s \o "\""

RECURSIVE json_items(_, _, _)
json_items(d, i, first) ==
    IF i > Len(SortedNames) THEN ""
    ELSE IF SortedNames[i] \in DOMAIN d
         THEN (IF first THEN "" ELSE ", ")
              \o "\"" \o SortedNames[i] \o "\": " \o json_value(d[SortedNames[i]])
              \o json_items(d, i + 1, FALSE)
         ELSE json_items(d, i + 1, first)

\* json.dumps(clean_kwargs, sort_keys=True, default=str)
json_dumps(d) == "{" \o json_items(d, 1, TRUE) \o "}"

\* hashlib.md5(key_data.encode()).hexdigest()[:8], tabulated on the texts the
\* model's parameter mappings produce.
md5_hex8(text) ==
    CASE text = "{}" -> "99914b93"
    [] text = "{\"player_id\": \"p1\"}" -> "cc5410df"
    [] text = "{\"player_id\": \"p2\"}" -> "c0d65185"
    [] text = "{\"player_id\": \"p3\"}" -> "b33bb08e"
    [] text = "{\"gateway_id\": 2}" -> "3622a8c0"
    [] text = "{\"gateway_id\": 21}" -> "8316fab9"
    [] text = "{\"workspace_id\": 1}" -> "d1aa633c"
    [] text = "{\"player_id\": \"p1\", \"workspace_id\": 1}" -> "c1d6b778"
    [] text = "{\"player_id\": \"p2\", \"workspace_id\": 1}" -> "297991e2"
    [] text = "{\"player_id\": \"p3\", \"workspace_id\": 1}" -> "5f174c61"
    [] text = "{\"gateway_id\": 2, \"workspace_id\": 1}" -> "0ffaa4d6"
    [] text = "{\"gateway_id\": 21, \"workspace_id\": 1}" -> "03085d8a"
    [] text = "{\"workspace_id\": 2}" -> "d4dc50ff"
    [] text = "{\"player_id\": \"p1\", \"workspace_id\": 2}" -> "b3e7dbbb"
    [] text = "{\"player_id\": \"p2\", \"workspace_id\": 2}" -> "e6a1bc32"
    [] text = "{\"player_id\": \"p3\", \"workspace_id\": 2}" -> "1118c5b2"
    [] text = "{\"gateway_id\": 2, \"workspace_id\": 2}" -> "bb6efa05"
    [] text = "{\"gateway_id\": 21, \"workspace_id\": 2}" -> "f527ee15"
    [] text = "{\"workspace_id\": 12}" -> "addbad4c"
    [] text = "{\"player_id\": \"p1\", \"workspace_id\": 12}" -> "3a52525b"
    [] text = "{\"player_id\": \"p2\", \"workspace_id\": 12}" -> "3c50df23"
    [] text = "{\"player_id\": \"p3\", \"workspace_id\": 12}" -> "aa3942e7"
    [] text = "{\"gateway_id\": 2, \"workspace_id\": 12}" -> "b1004545"
    [] text = "{\"gateway_id\": 21, \"workspace_id\": 12}" -> "1ccfaa7d"
    [] text = "{\"player_id\": null, \"workspace_id\": 1}" -> "b2329a05"
    [] text = "{\"gateway_id\": null, \"workspace_id\": 1}" -> "05b56c5e"
    [] text = "{\"gateway_id\": null, \"player_id\": null, \"workspace_id\": 1}" -> "ed67e1db"
    [] text = "{\"gateway_id\": 2, \"player_id\": null, \"workspace_id\": 1}" -> "9509ed9a"

_generate_cache_key(prefix, kwargs) ==
    prefix \o ":" \o md5_hex8(json_dumps(clean_kwargs(kwargs)))

(***************************************************************************)
(* TTL policy: ttl_settings.                                               *)
(***************************************************************************)
ttl_settings ==
    [c \in {"player_features", "dashboard_metrics", "churn_predictions",
            "player_timeline", "aggregated_data", "ml_models",
            "churn_metrics_data", "risk_alerts_data", "segmentation_data",
            "microtendencias_dashboard"} |->
        CASE c = "player_features" -> 900
          [] c = "dashboard_metrics" -> 600
          [] c = "churn_predictions" -> 1800
          [] c = "player_timeline" -> 3600
          [] c = "aggregated_data" -> 1800
          [] c = "ml_models" -> 7200
          [] c = "churn_metrics_data" -> 900
          [] c = "risk_alerts_data" -> 600
          [] c = "segmentation_data" -> 1800
          [] c = "microtendencias_dashboard" -> 300]

\* self.ttl_settings.get(name, 300)
ttl_settings_get(name, dflt) ==
    IF name \in DOMAIN ttl_settings THEN ttl_settings[name] ELSE dflt

DefaultTtl == 300

(***************************************************************************)
(* Serialization: pickle.dumps / pickle.loads.                             *)
(***************************************************************************)
\* A value pickle cannot serialize (a lambda, an open connection).
Unpicklable == "<unpicklable>"
\* The Python None as a cached value.
PyNone == "None"
\* Stored bytes that are no pickle.
Garbage == "garbage"
NoBytes == "<nil>"

pickle_ok(v) == v # Unpicklable
pickle_dumps(v) == "pkl:" \o v
\* An unpickler that accepts any bytes.
loads_ok_any(b) == TRUE

loads_ok(b) == Len(b) >= 4 /\ SubSeq(b, 1, 4) = "pkl:"
pickle_loads(b) == SubSeq(b, 5, Len(b))

(***************************************************************************)
(* The backend: Redis SETEX, GET, KEYS, DEL, FLUSHDB on one database.      *)
(***************************************************************************)
\* Glob match of KEYS: `*` matches any run of characters, the rest is literal.
RECURSIVE glob_match(_, _)
glob_match(p, s) ==
    IF p = "" THEN s = ""
    ELSE IF Head(p) = "*"
         THEN glob_match(Tail(p), s) \/ (s # "" /\ glob_match(p, Tail(s)))
         ELSE s # "" /\ Head(s) = Head(p) /\ glob_match(Tail(p), Tail(s))

\* A backend that never expires an entry.
Live_forever(st, t) == DOMAIN st

Live(st, t) == {k \in DOMAIN st : st[k].exp > t}

redis_get(st, k, t) == IF k \in Live(st, t) THEN st[k].bytes ELSE NoBytes

redis_setex_ok(ttl) == ttl > 0

\* A write that appends to the bytes already under the key.
redis_setex_appending(st, k, ttl, bytes, t) ==
    [x \in Live(st, t) \cup {k} |->
        IF x = k
        THEN [bytes |-> IF k \in Live(st, t) THEN st[k].bytes \o bytes ELSE bytes,
              ttl |-> ttl, exp |-> t + ttl]
        ELSE st[x]]

redis_setex(st, k, ttl, bytes, t) ==
    [x \in Live(st, t) \cup {k} |->
        IF x = k THEN [bytes |-> bytes, ttl |-> ttl, exp |-> t + ttl] ELSE st[x]]

redis_keys(st, pattern, t) == {k \in Live(st, t) : glob_match(pattern, k)}

redis_delete(st, keys, t) == [x \in Live(st, t) \ keys |-> st[x]]

redis_flushdb(st) == [x \in {} |-> 0]

(***************************************************************************)
(* The adapter's single-call methods, as the code computes them.  Raised   *)
(* stands for an exception leaving the method.                             *)
(***************************************************************************)
Raised == "<raised>"

\* get without its try/except: the backend's exception leaves the method.
get_unguarded(st, key, t, fail) ==
    IF fail THEN Raised
    ELSE LET cached_data == redis_get(st, key, t)
         IN IF cached_data = NoBytes THEN PyNone
            ELSE IF ~loads_ok(cached_data) THEN PyNone
            ELSE pickle_loads(cached_data)

\* CacheService.get: None when the key is missing, when the backend raises and
\* when the bytes do not unpickle; a stored None unpickles to None as well.
get(st, key, t, fail) ==
    IF fail THEN PyNone
    ELSE LET cached_data == redis_get(st, key, t)
         IN IF cached_data = NoBytes THEN PyNone
            ELSE IF ~loads_ok(cached_data) THEN PyNone
            ELSE pickle_loads(cached_data)

\* The expiry CacheService.set hands to SETEX.
set_ttl(ttl) == py_or(ttl, ttl_settings_get("default", DefaultTtl))

\* set without its try/except: a failed pickle or SETEX leaves the method.
set_result_unguarded(value, ttl, fail) ==
    IF ~pickle_ok(value) THEN "raise"
    ELSE IF fail \/ ~redis_setex_ok(set_ttl(ttl)) THEN "raise"
    ELSE "True"

\* CacheService.set: "True" when SETEX stored the pickle, "False" when
\* pickling or the backend call failed.
set_result(value, ttl, fail) ==
    IF ~pickle_ok(value) THEN "False"
    ELSE IF fail \/ ~redis_setex_ok(set_ttl(ttl)) THEN "False"
    ELSE "True"

\* set that claims the key only when it is not there yet (SET NX).
set_store_if_absent(st, key, value, ttl, t, fail) ==
    IF pickle_ok(value) /\ ~fail /\ redis_setex_ok(set_ttl(ttl)) /\ key \notin DOMAIN st
    THEN redis_setex(st, key, set_ttl(ttl), pickle_dumps(value), t)
    ELSE st

\* CacheService.set: the store after the call.
set_store(st, key, value, ttl, t, fail) ==
    IF pickle_ok(value) /\ ~fail /\ redis_setex_ok(set_ttl(ttl))
    THEN redis_setex(st, key, set_ttl(ttl), pickle_dumps(value), t)
    ELSE st

\* The expiry get_or_compute hands to set.
cache_ttl(cache_type, ttl) == py_or(ttl, ttl_settings_get(cache_type, DefaultTtl))

\* get_or_compute's test of the lookup: `cached_result is not None`.
is_hit(cached_result) == cached_result # PyNone

\* invalidate_pattern's return when a backend call raised.
invalidate_error_count == 0

\* clear_all_cache's return: 1 if result else 0, and 0 when FLUSHDB raised.
clear_all_result(fail) == IF fail THEN 0 ELSE 1

(***************************************************************************)
(* Invalidation planner: the pattern lists.                                *)
(***************************************************************************)
\* Patterns that name the category and leave the workspace out.
workspace_patterns_unscoped(workspace_id) ==
    << "player_features:*", "dashboard_metrics:*", "churn_predictions:*",
       "player_timeline:*", "aggregated_data:*", "microtendencias_dashboard:*",
       "dashboard_summary:*" >>

workspace_patterns(workspace_id) ==
    LET w == ToString(workspace_id) IN
    << "player_features:*workspace_id*" \o w \o "*",
       "dashboard_metrics:*workspace_id*" \o w \o "*",
       "churn_predictions:*workspace_id*" \o w \o "*",
       "player_timeline:*workspace_id*" \o w \o "*",
       "aggregated_data:*workspace_id*" \o w \o "*",
       "microtendencias_dashboard:*workspace_id*" \o w \o "*",
       "dashboard_summary:*workspace_id*" \o w \o "*" >>

gateway_patterns(workspace_id, gateway_id) ==
    LET w == ToString(workspace_id) IN
    IF gateway_id # None
    THEN LET g == ToString(gateway_id.i) IN
         << "dashboard_summary:*workspace_id*" \o w \o "*gateway_id*" \o g \o "*",
            "microtendencias_dashboard:*workspace_id*" \o w \o "*gateway_id*" \o g \o "*",
            "gateway_performance:*workspace_id*" \o w \o "*gateway_id*" \o g \o "*" >>
    ELSE << "dashboard_summary:*workspace_id*" \o w \o "*",
            "microtendencias_dashboard:*workspace_id*" \o w \o "*",
            "gateway_performance:*workspace_id*" \o w \o "*" >>

(***************************************************************************)
(* Inputs of the model.                                                    *)
(***************************************************************************)
\* microtendencias_dashboard is in both pattern lists and in ttl_settings;
\* gateway_performance is in the gateway list only; dashboard_summary is in
\* both lists and not in ttl_settings.
Categories == {"microtendencias_dashboard", "dashboard_summary", "gateway_performance"}

Workspaces == {1, 12}
Gateways == {2, 21}
GatewayArgs == {PyInt(g) : g \in Gateways} \cup {None}

\* Parameter mappings: a workspace, and a gateway that is given, null or omitted.
KwargsSet ==
    {("workspace_id" :> PyInt(w)) : w \in Workspaces}
    \cup {("workspace_id" :> PyInt(1)) @@ ("gateway_id" :> g) : g \in GatewayArgs}

\* Keys callers pass to set directly, written in the patterns' own convention.
RawKeys == {"dashboard_summary:workspace_id=1:gateway_id=2",
            "microtendencias_dashboard:workspace_id=12"}

\* What a compute function returns.
Values == {"a", "b", PyNone, Unpicklable}
ComputeError == "ComputeError"
BackendError == "BackendError"

TtlArgs == {None, PyInt(0), PyInt(1)}

PatternArgs == {"dashboard_summary:*"}

HealthKey == "health_check_test"

(***************************************************************************)
(* State.  call[c] is caller c's running call: its position, arguments,    *)
(* locals and return; lastw is the value last written under each live key, *)
(* or Expired once the backend has dropped the entry at its expiry.        *)
(***************************************************************************)
NoRet == [kind |-> "none"]
Absent == "<absent>"

Blank ==
    [pc |-> "idle", op |-> "none", key |-> "", cat |-> "", ttl |-> None,
     prior |-> Absent, got |-> NoBytes, cached |-> PyNone, result |-> "",
     ret |-> NoRet, calls |-> 0, writes |-> 0, failed |-> FALSE,
     patterns |-> <<>>, idx |-> 0, keys |-> {}, total |-> 0, deleted |-> {},
     W |-> 0, G |-> None, probe |-> "", set_result |-> "", dirty |-> FALSE,
     raced |-> FALSE, getfail |-> FALSE, computed |-> "none",
     scope |-> None, ids |-> <<>>, order |-> <<>>, hits |-> <<>>,
     missing |-> <<>>, asked |-> <<>>, data |-> <<>>, rest |-> <<>>,
     wrote |-> {}, seen |-> <<>>, expired |-> FALSE, kw |-> <<>>,
     key_counts |-> <<>>]

Init ==
    /\ store = [x \in {} |-> 0]
    /\ now = 0
    /\ call = [c \in Callers |-> Blank]
    /\ nops = 0
    /\ lastw = [x \in {} |-> ""]

\* A finished call is handed back to its caller before anything else runs.
Quiet == \A c \in Callers : call[c].pc # "done"

CanStart(c) == Quiet /\ call[c].pc = "idle" /\ nops < MaxOps

Begin(name) == [Blank EXCEPT !.op = name]

Expired == "<expired>"

Prior(k) == IF k \in DOMAIN lastw /\ lastw[k] # Expired THEN lastw[k] ELSE Absent

WasExpired(k) == k \in DOMAIN lastw /\ lastw[k] = Expired

\* lastw after value v was written under k, and after keys were removed.
Noted(k, v) == [x \in DOMAIN lastw \cup {k} |-> IF x = k THEN v ELSE lastw[x]]
Forgot(keys) == [x \in DOMAIN lastw \ keys |-> lastw[x]]
Lapsed(keys) == [x \in DOMAIN lastw |-> IF x \in keys THEN Expired ELSE lastw[x]]

\* The positions of a call that runs over several backend calls and whose
\* outcome a concurrent writer can change.
Interruptible == {"inv_keys", "inv_del", "clr_keys", "clr_del",
                  "bt_get", "bt_source", "bt_set"}

\* The calls after caller c moved to record r; with wrote, a write landed, and
\* every other caller's running multi-step call has had a concurrent writer.
Moved(c, r, wrote) ==
    [x \in Callers |->
        IF x = c THEN r
        ELSE IF wrote /\ call[x].pc \in Interruptible
             THEN [call[x] EXCEPT !.dirty = TRUE]
             ELSE call[x]]

Return(c) ==
    /\ call[c].pc = "done"
    /\ call' = [call EXCEPT ![c] = Blank]
    /\ UNCHANGED <<store, now, nops, lastw>>

(***************************************************************************)
(* Another client of the same Redis database leaves bytes under a key that *)
(* are no pickle.                                                          *)
(***************************************************************************)
Corrupt(k) ==
    /\ Quiet
    /\ redis_get(store, k, now) # Garbage
    /\ store' = redis_setex(store, k, DefaultTtl, Garbage, now)
    /\ lastw' = Forgot({k})
    /\ call' = [x \in Callers |->
                  IF call[x].pc \in Interruptible
                  THEN [call[x] EXCEPT !.dirty = TRUE] ELSE call[x]]
    /\ UNCHANGED <<now, nops>>

(***************************************************************************)
(* get and set called directly.                                            *)
(***************************************************************************)
\* A get that restarts the entry's expiry when it finds the key.
Get_refreshing(c, k, fail) ==
    /\ CanStart(c)
    /\ LET v == get(store, k, now, fail)
       IN call' = [call EXCEPT ![c] =
                     [Begin("get") EXCEPT
                         !.pc = "done", !.key = k, !.failed = fail,
                         !.getfail = fail, !.prior = Prior(k),
                         !.expired = WasExpired(k),
                         !.got = IF fail THEN NoBytes ELSE redis_get(store, k, now),
                         !.ret = [kind |-> "value", v |-> v]]]
    /\ store' = IF ~fail /\ k \in Live(store, now)
                THEN [store EXCEPT ![k].exp = now + store[k].ttl]
                ELSE store
    /\ nops' = nops + 1
    /\ UNCHANGED <<now, lastw>>

Get(c, k, fail) ==
    /\ CanStart(c)
    /\ LET v == get(store, k, now, fail)
       IN call' = [call EXCEPT ![c] =
                     [Begin("get") EXCEPT
                         !.pc = "done", !.key = k, !.failed = fail,
                         !.getfail = fail, !.prior = Prior(k),
                         !.expired = WasExpired(k),
                         !.got = IF fail THEN NoBytes ELSE redis_get(store, k, now),
                         !.ret = IF v = Raised
                                 THEN [kind |-> "raise", e |-> BackendError]
                                 ELSE [kind |-> "value", v |-> v]]]
    /\ nops' = nops + 1
    /\ UNCHANGED <<store, now, lastw>>

Set(c, k, v, ttl, fail) ==
    /\ CanStart(c)
    /\ LET sr == set_result(v, ttl, fail)
           st == set_store(store, k, v, ttl, now, fail)
           r == [Begin("set") EXCEPT
                    !.pc = "done", !.key = k, !.result = v, !.ttl = ttl,
                    !.failed = fail, !.set_result = sr, !.prior = Prior(k),
                    !.writes = IF st # store THEN 1 ELSE 0,
                    !.ret = IF sr = "raise"
                            THEN [kind |-> "raise", e |-> BackendError]
                            ELSE [kind |-> "bool", b |-> (sr = "True")]]
       IN /\ store' = st
          /\ call' = Moved(c, r, sr = "True")
          /\ lastw' = IF sr = "True" THEN Noted(k, v) ELSE lastw
    /\ nops' = nops + 1
    /\ UNCHANGED now

(***************************************************************************)
(* get_or_compute: the lookup, the computation and the store are three     *)
(* steps; other callers run between them.                                  *)
(***************************************************************************)
GocGet(c, cat, kw, ttl, fail) ==
    /\ CanStart(c)
    /\ LET cache_key == _generate_cache_key(cat, kw)
           cached_result == get(store, cache_key, now, fail)
           r == [Begin("get_or_compute") EXCEPT
                    !.key = cache_key, !.cat = cat, !.ttl = ttl, !.kw = kw,
                    !.failed = fail, !.getfail = fail, !.cached = cached_result,
                    !.prior = Prior(cache_key), !.expired = WasExpired(cache_key),
                    !.got = IF fail THEN NoBytes ELSE redis_get(store, cache_key, now)]
       IN call' = [call EXCEPT ![c] =
                     IF cached_result = Raised
                     THEN [r EXCEPT !.pc = "done",
                                    !.ret = [kind |-> "raise", e |-> BackendError]]
                     ELSE IF is_hit(cached_result)
                     THEN [r EXCEPT !.pc = "done",
                                    !.ret = [kind |-> "value", v |-> cached_result]]
                     ELSE [r EXCEPT !.pc = "goc_compute"]]
    /\ nops' = nops + 1
    /\ UNCHANGED <<store, now, lastw>>

\* compute_func(**kwargs) returns v.
GocCompute(c, v) ==
    /\ Quiet
    /\ call[c].pc = "goc_compute"
    /\ call' = [call EXCEPT ![c].calls = @ + 1, ![c].result = v,
                            ![c].computed = "returned", ![c].pc = "goc_set"]
    /\ UNCHANGED <<store, now, nops, lastw>>

\* A get_or_compute that caches the failure as None before raising it.
GocComputeFails_caching(c) ==
    /\ Quiet
    /\ call[c].pc = "goc_compute"
    /\ store' = redis_setex(store, call[c].key,
                            cache_ttl(call[c].cat, call[c].ttl),
                            pickle_dumps(PyNone), now)
    /\ lastw' = Noted(call[c].key, PyNone)
    /\ call' = [call EXCEPT ![c].calls = @ + 1, ![c].pc = "done",
                            ![c].computed = "raised",
                            ![c].ret = [kind |-> "raise", e |-> ComputeError]]
    /\ UNCHANGED <<now, nops>>

\* compute_func(**kwargs) raises: logged and raised again.
GocComputeFails(c) ==
    /\ Quiet
    /\ call[c].pc = "goc_compute"
    /\ call' = [call EXCEPT ![c].calls = @ + 1, ![c].pc = "done",
                            ![c].computed = "raised",
                            ![c].ret = [kind |-> "raise", e |-> ComputeError]]
    /\ UNCHANGED <<store, now, nops, lastw>>

\* self.set(cache_key, result, cache_ttl); return result
GocSet(c, fail) ==
    /\ Quiet
    /\ call[c].pc = "goc_set"
    /\ LET r == call[c]
           t == PyInt(cache_ttl(r.cat, r.ttl))
           sr == set_result(r.result, t, fail)
           st == set_store(store, r.key, r.result, t, now, fail)
           r2 == [r EXCEPT !.pc = "done",
                           !.failed = @ \/ fail,
                           !.writes = IF st # store THEN @ + 1 ELSE @,
                           !.set_result = sr,
                           !.raced = (r.key \in DOMAIN store),
                           !.ret = IF sr = "raise"
                                   THEN [kind |-> "raise", e |-> BackendError]
                                   ELSE [kind |-> "value", v |-> r.result]]
       IN /\ store' = st
          /\ call' = Moved(c, r2, sr = "True")
          /\ lastw' = IF sr = "True" THEN Noted(r.key, r.result) ELSE lastw
    /\ UNCHANGED <<now, nops>>

(***************************************************************************)
(* Invalidation: invalidate_pattern is KEYS then DEL; invalidate_workspace *)
(* and invalidate_gateway_cache run it over their pattern lists.           *)
(***************************************************************************)
StartInvalidatePattern(c, pattern) ==
    /\ CanStart(c)
    /\ call' = [call EXCEPT ![c] =
                  [Begin("invalidate_pattern") EXCEPT
                      !.patterns = <<pattern>>, !.idx = 1, !.pc = "inv_keys"]]
    /\ nops' = nops + 1
    /\ UNCHANGED <<store, now, lastw>>

StartInvalidateWorkspace(c, workspace_id) ==
    /\ CanStart(c)
    /\ call' = [call EXCEPT ![c] =
                  [Begin("invalidate_workspace") EXCEPT
                      !.W = workspace_id,
                      !.patterns = workspace_patterns(workspace_id),
                      !.idx = 1, !.pc = "inv_keys"]]
    /\ nops' = nops + 1
    /\ UNCHANGED <<store, now, lastw>>

StartInvalidateGateway(c, workspace_id, gateway_id) ==
    /\ CanStart(c)
    /\ call' = [call EXCEPT ![c] =
                  [Begin("invalidate_gateway_cache") EXCEPT
                      !.W = workspace_id, !.G = gateway_id,
                      !.patterns = gateway_patterns(workspace_id, gateway_id),
                      !.idx = 1, !.pc = "inv_keys"]]
    /\ nops' = nops + 1
    /\ UNCHANGED <<store, now, lastw>>

\* A loop that stops at the first pattern whose delete failed and returns 0.
AfterPattern_aborting(r, count, fail, gone) ==
    LET t == r.total + count
        base == [r EXCEPT !.total = t, !.keys = {}, !.failed = @ \/ fail,
                          !.deleted = @ \cup gone]
    IN IF fail
       THEN [base EXCEPT !.pc = "done", !.ret = [kind |-> "int", n |-> 0]]
       ELSE IF r.idx < Len(r.patterns)
       THEN [base EXCEPT !.idx = @ + 1, !.pc = "inv_keys"]
       ELSE [base EXCEPT !.pc = "done", !.ret = [kind |-> "int", n |-> t]]

\* The call record after one invalidate_pattern returned `count`: the next
\* pattern, or the return of the sum.
AfterPattern(r, count, fail, gone) ==
    LET t == r.total + count
        base == [r EXCEPT !.total = t, !.keys = {}, !.failed = @ \/ fail,
                          !.deleted = @ \cup gone]
    IN IF r.idx < Len(r.patterns)
       THEN [base EXCEPT !.idx = @ + 1, !.pc = "inv_keys"]
       ELSE [base EXCEPT !.pc = "done", !.ret = [kind |-> "int", n |-> t]]

\* keys = self.redis_client.keys(pattern); return 0 when there are none
InvKeys(c, fail) ==
    /\ Quiet
    /\ call[c].pc = "inv_keys"
    /\ LET r == call[c]
           keys == IF fail THEN {} ELSE redis_keys(store, r.patterns[r.idx], now)
       IN call' = [call EXCEPT ![c] =
                     IF fail THEN AfterPattern(r, invalidate_error_count, TRUE, {})
                     ELSE IF keys = {} THEN AfterPattern(r, 0, FALSE, {})
                     ELSE [r EXCEPT !.keys = keys, !.pc = "inv_del"]]
    /\ UNCHANGED <<store, now, nops, lastw>>

\* A delete that removes whatever matches the pattern at the time it runs.
InvDel_atomic(c, fail) ==
    /\ Quiet
    /\ call[c].pc = "inv_del"
    /\ LET r == call[c]
           gone == IF fail THEN {} ELSE redis_keys(store, r.patterns[r.idx], now)
       IN /\ store' = IF fail THEN store ELSE redis_delete(store, gone, now)
          /\ lastw' = Forgot(gone)
          /\ call' = [call EXCEPT ![c] =
                        IF fail THEN AfterPattern(r, invalidate_error_count, TRUE, {})
                        ELSE AfterPattern(r, Cardinality(gone), FALSE, gone)]
    /\ UNCHANGED <<now, nops>>

\* deleted_count = self.redis_client.delete(*keys)
InvDel(c, fail) ==
    /\ Quiet
    /\ call[c].pc = "inv_del"
    /\ LET r == call[c]
           gone == IF fail THEN {} ELSE r.keys \cap Live(store, now)
       IN /\ store' = IF fail THEN store ELSE redis_delete(store, r.keys, now)
          /\ lastw' = Forgot(gone)
          /\ call' = [call EXCEPT ![c] =
                        IF fail THEN AfterPattern(r, invalidate_error_count, TRUE, {})
                        ELSE AfterPattern(r, Cardinality(gone), FALSE, gone)]
    /\ UNCHANGED <<now, nops>>

(***************************************************************************)
(* health_check: SETEX, GET and DEL of the probe key, three backend calls. *)
(***************************************************************************)
\* The record health_check returns from its except clause: it has an error
\* and no write_test or read_test.
Unhealthy == [kind |-> "health", status |-> "unhealthy", redis_connected |-> FALSE,
              error |-> TRUE]

\* The record health_check returns when no call raised.
health_result(set_result_, retrieved_value, test_value) ==
    [kind |-> "health", status |-> "healthy", redis_connected |-> TRUE,
     write_test |-> (set_result_ # "None"),
     read_test |-> (retrieved_value = test_value)]

\* test_value carries datetime.now(): no two calls write the same value.
HcSet(c, fail) ==
    /\ CanStart(c)
    /\ LET test_value == "probe" \o ToString(nops)
           r == [Begin("health_check") EXCEPT
                    !.key = HealthKey, !.probe = test_value, !.failed = fail]
       IN /\ store' = IF fail THEN store
                      ELSE redis_setex(store, HealthKey, 60,
                                       pickle_dumps(test_value), now)
          /\ lastw' = IF fail THEN lastw ELSE Noted(HealthKey, test_value)
          /\ call' = Moved(c, IF fail THEN [r EXCEPT !.pc = "done", !.ret = Unhealthy]
                              ELSE [r EXCEPT !.pc = "hc_get", !.set_result = "True",
                                             !.writes = 1],
                           ~fail)
    /\ nops' = nops + 1
    /\ UNCHANGED now

\* get_result = GET(test_key); retrieved_value = loads(get_result) or None
HcGet(c, fail) ==
    /\ Quiet
    /\ call[c].pc = "hc_get"
    /\ LET r == call[c]
           get_result == redis_get(store, HealthKey, now)
           raises == fail \/ (get_result # NoBytes /\ ~loads_ok(get_result))
       IN call' = [call EXCEPT ![c] =
                     IF raises
                     THEN [r EXCEPT !.pc = "done", !.failed = TRUE, !.ret = Unhealthy]
                     ELSE [r EXCEPT !.pc = "hc_del", !.got = get_result,
                                    !.cached = IF get_result # NoBytes
                                               THEN pickle_loads(get_result)
                                               ELSE PyNone]]
    /\ UNCHANGED <<store, now, nops, lastw>>

HcDel(c, fail) ==
    /\ Quiet
    /\ call[c].pc = "hc_del"
    /\ LET r == call[c]
       IN /\ store' = IF fail THEN store ELSE redis_delete(store, {HealthKey}, now)
          /\ lastw' = IF fail THEN lastw ELSE Forgot({HealthKey})
          /\ call' = [call EXCEPT ![c] =
                        IF fail
                        THEN [r EXCEPT !.pc = "done", !.failed = TRUE, !.ret = Unhealthy]
                        ELSE [r EXCEPT !.pc = "done",
                                       !.ret = health_result(r.set_result, r.cached,
                                                             r.probe)]]
    /\ UNCHANGED <<now, nops>>

(***************************************************************************)
(* get_stats and clear_all_cache.                                          *)
(***************************************************************************)
\* get_stats makes twelve backend calls, and other callers run between
\* them: info(), one keys() per category in the order of ttl_settings, and
\* the info() of _calculate_hit_rate, which swallows its own failure.
stats_order ==
    << "player_features", "dashboard_metrics", "churn_predictions",
       "player_timeline", "aggregated_data", "ml_models", "churn_metrics_data",
       "risk_alerts_data", "segmentation_data", "microtendencias_dashboard" >>

\* The record get_stats returns from its except clause.
stats_error == [kind |-> "stats", connected |-> FALSE, error |-> TRUE]

\* The record get_stats returns when info() and every keys() succeeded.
stats_result(key_counts, hit_rate_read) ==
    [kind |-> "stats", connected |-> TRUE, error |-> FALSE,
     key_counts |-> key_counts, hit_rate_read |-> hit_rate_read]

\* info = self.redis_client.info()
StatsInfo(c, fail) ==
    /\ CanStart(c)
    /\ call' = [call EXCEPT ![c] =
                  IF fail
                  THEN [Begin("get_stats") EXCEPT
                           !.pc = "done", !.failed = TRUE, !.cat = "info",
                           !.ret = stats_error]
                  ELSE [Begin("get_stats") EXCEPT !.pc = "st_keys", !.idx = 1]]
    /\ nops' = nops + 1
    /\ UNCHANGED <<store, now, lastw>>

\* count = len(self.redis_client.keys(f"{cache_type}:*")) for the next category
StatsKeys(c, fail) ==
    /\ Quiet
    /\ call[c].pc = "st_keys"
    /\ LET r == call[c]
           cache_type == stats_order[r.idx]
           count == Cardinality(redis_keys(store, cache_type \o ":*", now))
       IN call' = [call EXCEPT ![c] =
                     IF fail
                     THEN [r EXCEPT !.pc = "done", !.failed = TRUE, !.cat = "keys",
                                    !.ret = stats_error]
                     ELSE [r EXCEPT !.key_counts = @ @@ (cache_type :> count),
                                    !.idx = IF r.idx < Len(stats_order)
                                            THEN @ + 1 ELSE @,
                                    !.pc = IF r.idx < Len(stats_order)
                                           THEN "st_keys" ELSE "st_hit_rate"]]
    /\ UNCHANGED <<store, now, nops, lastw>>

\* 'hit_rate': self._calculate_hit_rate(), and the return of the record
StatsHitRate(c, fail) ==
    /\ Quiet
    /\ call[c].pc = "st_hit_rate"
    /\ call' = [call EXCEPT ![c] =
                  [call[c] EXCEPT
                      !.pc = "done", !.failed = fail,
                      !.cat = IF fail THEN "hit_rate" ELSE "",
                      !.ret = stats_result(call[c].key_counts, ~fail)]]
    /\ UNCHANGED <<store, now, nops, lastw>>

\* clear_all_cache: FLUSHDB.
ClearAll(c, fail) ==
    /\ CanStart(c)
    /\ store' = IF fail THEN store ELSE redis_flushdb(store)
    /\ lastw' = IF fail THEN lastw ELSE Forgot(DOMAIN lastw)
    /\ call' = [call EXCEPT ![c] =
                  [Begin("clear_all_cache") EXCEPT
                      !.pc = "done", !.failed = fail,
                      !.deleted = IF fail THEN {} ELSE DOMAIN store,
                      !.ret = [kind |-> "int", n |-> clear_all_result(fail)]]]
    /\ nops' = nops + 1
    /\ UNCHANGED now

(***************************************************************************)
(* clear_microtendencias_cache: KEYS and DEL per pattern of a fixed list,  *)
(* all inside one try; workspace_id only chooses the log line.             *)
(***************************************************************************)
microtendencias_patterns ==
    << "microtendencias_dashboard:*", "dashboard_summary:*",
       "microtendencias_trends:*", "microtendencias_gateway_performance:*" >>

\* The method's return when a backend call raised.
clear_error_count == 0

StartClearMicrotendencias(c, workspace_id) ==
    /\ CanStart(c)
    /\ call' = [call EXCEPT ![c] =
                  [Begin("clear_microtendencias_cache") EXCEPT
                      !.scope = workspace_id,
                      !.patterns = microtendencias_patterns,
                      !.idx = 1, !.pc = "clr_keys"]]
    /\ nops' = nops + 1
    /\ UNCHANGED <<store, now, lastw>>

\* The call record after a backend call of the loop raised: the except
\* clause around the whole loop returns 0.
ClearFailed(r) ==
    [r EXCEPT !.failed = TRUE, !.pc = "done",
              !.ret = [kind |-> "int", n |-> clear_error_count]]

\* The call record after one pattern deleted `count` keys: the next pattern,
\* or the return of total_deleted.
ClearNext(r, count, gone) ==
    LET t == r.total + count
        base == [r EXCEPT !.total = t, !.keys = {}, !.deleted = @ \cup gone]
    IN IF r.idx < Len(r.patterns)
       THEN [base EXCEPT !.idx = @ + 1, !.pc = "clr_keys"]
       ELSE [base EXCEPT !.pc = "done", !.ret = [kind |-> "int", n |-> t]]

\* keys = self.redis_client.keys(pattern)
ClrKeys(c, fail) ==
    /\ Quiet
    /\ call[c].pc = "clr_keys"
    /\ LET r == call[c]
           keys == IF fail THEN {} ELSE redis_keys(store, r.patterns[r.idx], now)
       IN call' = [call EXCEPT ![c] =
                     IF fail THEN ClearFailed(r)
                     ELSE IF keys = {} THEN ClearNext(r, 0, {})
                     ELSE [r EXCEPT !.keys = keys, !.pc = "clr_del"]]
    /\ UNCHANGED <<store, now, nops, lastw>>

\* deleted = self.redis_client.delete(*keys); total_deleted += deleted
ClrDel(c, fail) ==
    /\ Quiet
    /\ call[c].pc = "clr_del"
    /\ LET r == call[c]
           gone == IF fail THEN {} ELSE r.keys \cap Live(store, now)
       IN /\ store' = IF fail THEN store ELSE redis_delete(store, r.keys, now)
          /\ lastw' = Forgot(gone)
          /\ call' = [call EXCEPT ![c] =
                        IF fail THEN ClearFailed(r)
                        ELSE ClearNext(r, Cardinality(gone), gone)]
    /\ UNCHANGED <<now, nops>>

(***************************************************************************)
(* batch_cache_player_timelines: one get per requested player, one call of *)
(* the data source for the players that missed, one set per player the     *)
(* data source returned.                                                   *)
(***************************************************************************)
Range(f) == {f[i] : i \in DOMAIN f}

NoRepeats(seq) == \A i, j \in DOMAIN seq : i # j => seq[i] # seq[j]

\* A key list that keeps every occurrence of a repeated id.
dict_keys_repeated(player_id_list) == player_id_list

\* The keys of the dict comprehension over player_id_list, in insertion
\* order: a repeated id is one key.
RECURSIVE dict_keys(_)
dict_keys(player_id_list) ==
    IF player_id_list = <<>> THEN <<>>
    ELSE LET n == Len(player_id_list)
             front == dict_keys(SubSeq(player_id_list, 1, n - 1))
         IN IF player_id_list[n] \in Range(front) THEN front
            ELSE Append(front, player_id_list[n])

timeline_key(workspace_id, player_id) ==
    _generate_cache_key("player_timeline",
                        ("workspace_id" :> PyInt(workspace_id))
                        @@ ("player_id" :> PyStr(player_id)))

\* A TTL taken from the global default instead of the category's entry.
timeline_ttl_default == DefaultTtl

\* ttl = cache_service.ttl_settings['player_timeline']
timeline_ttl == ttl_settings["player_timeline"]

\* A result that holds the data source's values only.
all_results_missing_only(cached_results, missing_data) == missing_data

\* {**cached_results, **missing_data}
all_results(cached_results, missing_data) ==
    [id \in DOMAIN cached_results \cup DOMAIN missing_data |->
        IF id \in DOMAIN missing_data THEN missing_data[id]
        ELSE cached_results[id]]

KeyError == "KeyError"
DataSourceError == "DataSourceError"

BatchStart(c, workspace_id, player_id_list) ==
    /\ CanStart(c)
    /\ LET order == dict_keys(player_id_list)
           r == [Begin("batch_cache_player_timelines") EXCEPT
                    !.W = workspace_id, !.ids = player_id_list,
                    !.order = order, !.idx = 1]
       IN call' = [call EXCEPT ![c] =
                     IF order = <<>>
                     THEN [r EXCEPT !.pc = "done",
                                    !.ret = [kind |-> "map", m |-> r.hits]]
                     ELSE [r EXCEPT !.pc = "bt_get"]]
    /\ nops' = nops + 1
    /\ UNCHANGED <<store, now, lastw>>

\* cached_data = cache_service.get(cache_key) for the next player; after the
\* last one, the return of the hits when nobody missed.
BtGet(c, fail) ==
    /\ Quiet
    /\ call[c].pc = "bt_get"
    /\ LET r == call[c]
           player_id == r.order[r.idx]
           cache_key == timeline_key(r.W, player_id)
           cached_data == get(store, cache_key, now, fail)
           r1 == [r EXCEPT
                    !.failed = @ \/ fail,
                    !.seen = @ @@ (player_id :>
                                     IF fail THEN Absent ELSE Prior(cache_key)),
                    !.hits = IF cached_data # PyNone
                             THEN @ @@ (player_id :> cached_data) ELSE @,
                    !.missing = IF cached_data # PyNone
                                THEN @ ELSE Append(@, player_id)]
       IN call' = [call EXCEPT ![c] =
                     IF r.idx < Len(r.order) THEN [r1 EXCEPT !.idx = @ + 1]
                     ELSE IF r1.missing = <<>>
                     THEN [r1 EXCEPT !.pc = "done",
                                     !.ret = [kind |-> "map", m |-> r1.hits]]
                     ELSE [r1 EXCEPT !.pc = "bt_source"]]
    /\ UNCHANGED <<store, now, nops, lastw>>

\* missing_data = db_manager.get_players_timeline_data_batch(...): the data
\* source returns a dict that holds the value v for the players of `items`,
\* in that order.
BtSource(c, items, v) ==
    /\ Quiet
    /\ call[c].pc = "bt_source"
    /\ LET r == call[c]
           missing_data == [id \in Range(items) |-> v]
           r1 == [r EXCEPT !.asked = Append(@, r.missing), !.calls = @ + 1,
                           !.data = missing_data, !.rest = items]
       IN call' = [call EXCEPT ![c] =
                     IF items = <<>>
                     THEN [r1 EXCEPT !.pc = "done",
                                     !.ret = [kind |-> "map",
                                              m |-> all_results(r.hits, missing_data)]]
                     ELSE [r1 EXCEPT !.pc = "bt_set"]]
    /\ UNCHANGED <<store, now, nops, lastw>>

\* The data source raises: nothing in the function catches it.
BtSourceFails(c) ==
    /\ Quiet
    /\ call[c].pc = "bt_source"
    /\ call' = [call EXCEPT ![c].asked = Append(@, call[c].missing),
                            ![c].calls = @ + 1, ![c].pc = "done",
                            ![c].ret = [kind |-> "raise", e |-> DataSourceError]]
    /\ UNCHANGED <<store, now, nops, lastw>>

\* cache_service.set(cache_keys[player_id], timeline_data, ttl) for the next
\* item of missing_data; after the last one, the return of the combined
\* results.  An id that is no key of cache_keys raises KeyError.
BtSet(c, fail) ==
    /\ Quiet
    /\ call[c].pc = "bt_set"
    /\ LET r == call[c]
           player_id == Head(r.rest)
           known == player_id \in Range(r.order)
           cache_key == timeline_key(r.W, player_id)
           ttl == PyInt(timeline_ttl)
           sr == IF known THEN set_result(r.data[player_id], ttl, fail) ELSE "False"
           st == IF known
                 THEN set_store(store, cache_key, r.data[player_id], ttl, now, fail)
                 ELSE store
           r1 == [r EXCEPT !.rest = Tail(@),
                           !.failed = @ \/ (known /\ sr # "True"),
                           !.writes = IF sr = "True" THEN @ + 1 ELSE @,
                           !.wrote = IF sr = "True" THEN @ \cup {player_id} ELSE @]
           r2 == IF ~known
                 THEN [r1 EXCEPT !.pc = "done",
                                 !.ret = [kind |-> "raise", e |-> KeyError]]
                 ELSE IF r1.rest = <<>>
                 THEN [r1 EXCEPT !.pc = "done",
                                 !.ret = [kind |-> "map",
                                          m |-> all_results(r.hits, r.data)]]
                 ELSE r1
       IN /\ store' = st
          /\ call' = Moved(c, r2, sr = "True")
          /\ lastw' = IF sr = "True" THEN Noted(cache_key, r.data[player_id])
                      ELSE lastw
    /\ UNCHANGED <<now, nops>>

(***************************************************************************)
(* Time: the backend drops an entry when its expiry is reached.            *)
(***************************************************************************)
Tick ==
    /\ Quiet
    /\ now < MaxTime
    /\ now' = now + 1
    /\ store' = [x \in Live(store, now + 1) |-> store[x]]
    /\ lastw' = Lapsed(DOMAIN store \ Live(store, now + 1))
    /\ UNCHANGED <<call, nops>>

(***************************************************************************)
(* Workloads.  Each specification runs the same actions under the calls    *)
(* and inputs its callers make.                                            *)
(***************************************************************************)
\* Read-through traffic: get_or_compute and get, with expiry.
ComputeCategories == {"microtendencias_dashboard"}
ComputeKwargs == {("workspace_id" :> PyInt(1)), ("workspace_id" :> PyInt(12))}

ComputeTtls == {None, PyInt(1)}

NextCompute ==
    \/ \E c \in Callers, cat \in ComputeCategories, kw \in ComputeKwargs,
          ttl \in ComputeTtls, fail \in BOOLEAN : GocGet(c, cat, kw, ttl, fail)
    \/ \E c \in Callers, v \in Values : GocCompute(c, v)
    \/ \E c \in Callers : GocComputeFails(c)
    \/ \E c \in Callers, fail \in BOOLEAN : GocSet(c, fail)
    \/ \E c \in Callers : Return(c)
    \/ Tick

SpecCompute == Init /\ [][NextCompute]_vars

\* Invalidation traffic: entries written through get_or_compute and set, then
\* invalidated by workspace, by gateway and by pattern.
NextInvalidate ==
    \/ \E c \in Callers, cat \in Categories, kw \in KwargsSet :
          GocGet(c, cat, kw, None, FALSE)
    \/ \E c \in Callers : GocCompute(c, "a")
    \/ \E c \in Callers : GocSet(c, FALSE)
    \/ \E c \in Callers, k \in RawKeys : Set(c, k, "a", None, FALSE)
    \/ \E c \in Callers, w \in Workspaces : StartInvalidateWorkspace(c, w)
    \/ \E c \in Callers, w \in Workspaces, g \in GatewayArgs :
          StartInvalidateGateway(c, w, g)
    \/ \E c \in Callers, fail \in BOOLEAN : InvKeys(c, fail)
    \/ \E c \in Callers, fail \in BOOLEAN : InvDel(c, fail)
    \/ \E c \in Callers : Return(c)

SpecInvalidate == Init /\ [][NextInvalidate]_vars

\* Adapter traffic: every Store Adapter method, each backend call of which
\* may raise.
NextAdapter ==
    \/ \E c \in Callers, k \in RawKeys, fail \in BOOLEAN : Get(c, k, fail)
    \/ \E c \in Callers, k \in RawKeys, v \in {"a", Unpicklable},
          ttl \in {None, PyInt(-1)}, fail \in BOOLEAN : Set(c, k, v, ttl, fail)
    \/ \E c \in Callers, p \in PatternArgs : StartInvalidatePattern(c, p)
    \/ \E c \in Callers, fail \in BOOLEAN : InvKeys(c, fail)
    \/ \E c \in Callers, fail \in BOOLEAN : InvDel(c, fail)
    \/ \E c \in Callers, fail \in BOOLEAN : HcSet(c, fail)
    \/ \E c \in Callers, fail \in BOOLEAN : HcGet(c, fail)
    \/ \E c \in Callers, fail \in BOOLEAN : HcDel(c, fail)
    \/ \E c \in Callers, fail \in BOOLEAN : StatsInfo(c, fail)
    \/ \E c \in Callers, fail \in BOOLEAN : StatsKeys(c, fail)
    \/ \E c \in Callers, fail \in BOOLEAN : StatsHitRate(c, fail)
    \/ \E c \in Callers, fail \in BOOLEAN : ClearAll(c, fail)
    \/ \E c \in Callers : Return(c)

SpecAdapter == Init /\ [][NextAdapter]_vars

\* Group clearing: entries of two workspaces written through get_or_compute,
\* then cleared by clear_microtendencias_cache with and without workspace_id.
ClearScopes == {None, PyInt(1)}

NextClear ==
    \/ \E c \in Callers, cat \in Categories, w \in Workspaces :
          GocGet(c, cat, ("workspace_id" :> PyInt(w)), None, FALSE)
    \/ \E c \in Callers : GocCompute(c, "a")
    \/ \E c \in Callers : GocSet(c, FALSE)
    \/ \E c \in Callers, w \in ClearScopes : StartClearMicrotendencias(c, w)
    \/ \E c \in Callers, fail \in BOOLEAN : ClrKeys(c, fail)
    \/ \E c \in Callers, fail \in BOOLEAN : ClrDel(c, fail)
    \/ \E c \in Callers : Return(c)

SpecClear == Init /\ [][NextClear]_vars

\* Policy traffic: get_or_compute over categories in and out of the TTL
\* table, with parameters given, null and omitted, and with and without a
\* caller's ttl.
PolicyCategories == {"player_features", "dashboard_summary", "gateway_performance"}
PolicyKwargs ==
    {("workspace_id" :> PyInt(1)),
     ("workspace_id" :> PyInt(1)) @@ ("gateway_id" :> None),
     ("workspace_id" :> PyInt(1)) @@ ("gateway_id" :> None) @@ ("player_id" :> None),
     ("workspace_id" :> PyInt(1)) @@ ("gateway_id" :> PyInt(2))}
PolicyTtls == {None, PyInt(0), PyInt(60)}

NextPolicy ==
    \/ \E c \in Callers, cat \in PolicyCategories, kw \in PolicyKwargs,
          ttl \in PolicyTtls : GocGet(c, cat, kw, ttl, FALSE)
    \/ \E c \in Callers : GocCompute(c, "a")
    \/ \E c \in Callers : GocSet(c, FALSE)
    \/ \E c \in Callers : Return(c)

SpecPolicy == Init /\ [][NextPolicy]_vars

\* Decode traffic: keys that hold undecodable bytes, read by get and by
\* get_or_compute.
DecodeCategories == {"microtendencias_dashboard"}
DecodeKwargs == {("workspace_id" :> PyInt(1)), ("workspace_id" :> PyInt(12))}
DecodeKeys == {_generate_cache_key(cat, kw) : cat \in DecodeCategories,
                                              kw \in DecodeKwargs}

NextDecode ==
    \/ \E k \in DecodeKeys : Corrupt(k)
    \/ \E c \in Callers, k \in DecodeKeys, fail \in BOOLEAN : Get(c, k, fail)
    \/ \E c \in Callers, cat \in DecodeCategories, kw \in DecodeKwargs :
          GocGet(c, cat, kw, None, FALSE)
    \/ \E c \in Callers, v \in {"a", Unpicklable} : GocCompute(c, v)
    \/ \E c \in Callers : GocComputeFails(c)
    \/ \E c \in Callers, fail \in BOOLEAN : GocSet(c, fail)
    \/ \E c \in Callers : Return(c)

SpecDecode == Init /\ [][NextDecode]_vars

\* Race traffic: invalidate_pattern on a category while get_or_compute and
\* set write entries of it.
RaceCategories == {"dashboard_summary"}
RaceKwargs == {("workspace_id" :> PyInt(1)), ("workspace_id" :> PyInt(12))}
RaceKeys == {"dashboard_summary:workspace_id=1:gateway_id=2"}

NextRace ==
    \/ \E k \in RaceKeys : Corrupt(k)
    \/ \E c \in Callers, k \in RaceKeys : Set(c, k, "b", None, FALSE)
    \/ \E c \in Callers, cat \in RaceCategories, kw \in RaceKwargs :
          GocGet(c, cat, kw, None, FALSE)
    \/ \E c \in Callers : GocCompute(c, "a")
    \/ \E c \in Callers : GocSet(c, FALSE)
    \/ \E c \in Callers, p \in PatternArgs : StartInvalidatePattern(c, p)
    \/ \E c \in Callers, fail \in BOOLEAN : InvKeys(c, fail)
    \/ \E c \in Callers, fail \in BOOLEAN : InvDel(c, fail)
    \/ \E c \in Callers : Return(c)

SpecRace == Init /\ [][NextRace]_vars

\* Read traffic: entries written by get_or_compute with a short ttl, then
\* read by get and by get_or_compute while time passes.
ReadCategories == {"microtendencias_dashboard"}
ReadKwargs == {("workspace_id" :> PyInt(1)), ("workspace_id" :> PyInt(12))}
ReadKeys == {_generate_cache_key(cat, kw) : cat \in ReadCategories, kw \in ReadKwargs}
ReadTtls == {PyInt(1), PyInt(2)}

NextReads ==
    \/ \E c \in Callers, cat \in ReadCategories, kw \in ReadKwargs, ttl \in ReadTtls :
          GocGet(c, cat, kw, ttl, FALSE)
    \/ \E c \in Callers : GocCompute(c, "a")
    \/ \E c \in Callers : GocSet(c, FALSE)
    \/ \E c \in Callers, k \in ReadKeys, fail \in BOOLEAN : Get(c, k, fail)
    \/ \E c \in Callers : Return(c)
    \/ Tick

SpecReads == Init /\ [][NextReads]_vars

\* Store traffic: set and get on the same keys, with expiry.
StoreValues == {"a", "b", PyNone, Unpicklable}
StoreTtls == {None, PyInt(0), PyInt(1), PyInt(-1)}

NextRoundTrip ==
    \/ \E c \in Callers, k \in RawKeys, v \in StoreValues, ttl \in StoreTtls,
          fail \in BOOLEAN : Set(c, k, v, ttl, fail)
    \/ \E c \in Callers, k \in RawKeys, fail \in BOOLEAN : Get(c, k, fail)
    \/ \E c \in Callers : Return(c)
    \/ Tick

SpecRoundTrip == Init /\ [][NextRoundTrip]_vars

\* Batch traffic: one caller assembles timelines of a workspace's players
\* while the other stores some of them.
BatchCallers == {"c1"}
StoreCallers == {"c2"}
Players == {"p1", "p2"}
PlayerLists == UNION {[1..n -> Players] : n \in 0..MaxIds}
TimelineValues == {"x", "y"}
\* The dicts the data source can return: any players, in any order.
ItemOrders ==
    {items \in UNION {[1..n -> Players] : n \in 0..Cardinality(Players)} :
        NoRepeats(items)}

NextBatch ==
    \/ \E c \in StoreCallers, p \in Players :
          Set(c, timeline_key(1, p), "a", None, FALSE)
    \/ \E c \in BatchCallers, ids \in PlayerLists : BatchStart(c, 1, ids)
    \/ \E c \in Callers, fail \in BOOLEAN : BtGet(c, fail)
    \/ \E c \in Callers, items \in ItemOrders, v \in TimelineValues :
          BtSource(c, items, v)
    \/ \E c \in Callers : BtSourceFails(c)
    \/ \E c \in Callers, fail \in BOOLEAN : BtSet(c, fail)
    \/ \E c \in Callers : Return(c)

SpecBatch == Init /\ [][NextBatch]_vars

Next ==
    \/ NextCompute \/ NextInvalidate \/ NextAdapter \/ NextClear
    \/ NextRoundTrip \/ NextBatch \/ NextPolicy \/ NextDecode \/ NextRace
    \/ NextReads

Spec == Init /\ [][Next]_vars

(***************************************************************************)
(* Properties.                                                             *)
(***************************************************************************)
Done(c, name) == call[c].pc = "done" /\ call[c].op = name

\* The categories invalidate_workspace and invalidate_gateway_cache name.
WorkspaceCategories ==
    {"player_features", "dashboard_metrics", "churn_predictions", "player_timeline",
     "aggregated_data", "microtendencias_dashboard", "dashboard_summary"}
GatewayCategories ==
    {"dashboard_summary", "microtendencias_dashboard", "gateway_performance"}

\* The keys _generate_cache_key derives for the categories cats from the
\* parameter mappings kws.
KeysOf(cats, kws) ==
    {_generate_cache_key(cat, kw) : cat \in cats \cap Categories, kw \in kws}

OfWorkspace(w) == {kw \in KwargsSet : kw["workspace_id"] = PyInt(w)}
NotOfWorkspace(w) == {kw \in KwargsSet : kw["workspace_id"] # PyInt(w)}
OfGateway(w, g) ==
    {kw \in OfWorkspace(w) : "gateway_id" \in DOMAIN kw /\ kw["gateway_id"] = g}
OfOtherGateway(w, g) ==
    {kw \in OfWorkspace(w) : "gateway_id" \in DOMAIN kw /\ kw["gateway_id"] # None
                             /\ kw["gateway_id"] # g}

\* The category of a key: the text before its first colon.
RECURSIVE KeyCategory(_)
KeyCategory(k) ==
    IF k = "" \/ Head(k) = ":" THEN "" ELSE Head(k) \o KeyCategory(Tail(k))

\* C1: a get_or_compute whose lookup finds the entry an earlier call stored
\* returns the stored value and does not invoke the compute function.
C1_HitIsIdempotent ==
    \A c \in Callers :
        (Done(c, "get_or_compute") /\ ~call[c].getfail /\ call[c].prior # Absent)
        => (call[c].calls = 0
            /\ call[c].ret = [kind |-> "value", v |-> call[c].prior])

\* C2: after invalidate_workspace(W) returns, with no backend failure and no
\* concurrent writer, no key derived for a tenant-scoped category with
\* workspace_id = W is left in the store.
C2_WorkspaceInvalidationComplete ==
    \A c \in Callers :
        (Done(c, "invalidate_workspace") /\ ~call[c].failed /\ ~call[c].dirty)
        => \A k \in KeysOf(WorkspaceCategories, OfWorkspace(call[c].W)) :
              k \notin DOMAIN store

\* C3: invalidate_workspace(W) removes no key derived with another
\* workspace_id and no key outside the seven tenant-scoped categories.
C3_WorkspaceInvalidationIsolated ==
    \A c \in Callers :
        call[c].op = "invalidate_workspace"
        => \A k \in call[c].deleted :
              /\ k \notin KeysOf(Categories, NotOfWorkspace(call[c].W))
              /\ KeyCategory(k) \in WorkspaceCategories

C3_Witness ==
    \E c \in Callers :
        /\ Done(c, "invalidate_workspace") /\ ~call[c].failed /\ call[c].W = 1
        /\ \E k \in KeysOf(Categories, NotOfWorkspace(1)) : k \in DOMAIN store
        /\ \E k \in DOMAIN store : KeyCategory(k) \notin WorkspaceCategories

\* C4: invalidate_gateway_cache(W, G) with G given removes every key derived
\* for the gateway categories with workspace_id = W and gateway_id = G, and
\* removes no key of the same workspace derived with another gateway_id.
C4_GatewayInvalidationScoped ==
    \A c \in Callers :
        (Done(c, "invalidate_gateway_cache") /\ call[c].G # None
            /\ ~call[c].failed /\ ~call[c].dirty)
        => /\ \A k \in KeysOf(GatewayCategories, OfGateway(call[c].W, call[c].G)) :
                 k \notin DOMAIN store
           /\ \A k \in KeysOf(GatewayCategories, OfOtherGateway(call[c].W, call[c].G)) :
                 k \notin call[c].deleted

\* C5: invalidate_gateway_cache(W) with gateway_id omitted removes every key
\* derived for the gateway categories with workspace_id = W, whatever its
\* gateway_id.
C5_GatewayInvalidationAll ==
    \A c \in Callers :
        (Done(c, "invalidate_gateway_cache") /\ call[c].G = None
            /\ ~call[c].failed /\ ~call[c].dirty)
        => \A k \in KeysOf(GatewayCategories, OfWorkspace(call[c].W)) :
              k \notin DOMAIN store

\* C6: the step in which the compute function fails ends get_or_compute with
\* that failure after one invocation, and leaves the store as it was.
C6_ComputeFailurePropagates ==
    [][\A c \in Callers :
          (call[c].pc = "goc_compute" /\ call'[c].pc = "done")
          => /\ store' = store
             /\ call'[c].ret = [kind |-> "raise", e |-> ComputeError]
             /\ call'[c].calls = 1
             /\ call'[c].writes = 0]_vars

C6_Witness ==
    \E c \in Callers :
        /\ Done(c, "get_or_compute") /\ call[c].computed = "raised"
        /\ call[c].key \notin DOMAIN store

\* C7: get_or_compute raises only when the compute function raised; after a
\* failed lookup it invokes the compute function, and whenever the compute
\* function returned it returns that value, stored or not.
C7_CacheFailureNeverSurfaces ==
    \A c \in Callers :
        Done(c, "get_or_compute")
        => /\ call[c].ret.kind = "raise" => call[c].computed = "raised"
           /\ call[c].getfail => call[c].calls = 1
           /\ call[c].computed = "returned"
                 => call[c].ret = [kind |-> "value", v |-> call[c].result]

C7_Witness ==
    /\ \E c \in Callers :
          /\ Done(c, "get_or_compute") /\ call[c].getfail
          /\ call[c].set_result = "False" /\ call[c].result = "a"
          /\ call[c].ret = [kind |-> "value", v |-> "a"]

\* C8: health_check reports "healthy" only if the probe write succeeded and
\* the value read back equals the value written.
C8_HealthyOnlyAfterRoundTrip ==
    \A c \in Callers :
        (Done(c, "health_check") /\ call[c].ret.status = "healthy")
        => (call[c].ret.write_test /\ call[c].ret.read_test)

\* C9: a get_or_compute that missed, computed and wrote has invoked the
\* compute function once, returns its own value, and its write replaces what
\* a racing caller wrote: every stored value is the last one written.
C9_LastWriteWins ==
    /\ \A c \in Callers :
          (Done(c, "get_or_compute") /\ ~call[c].getfail /\ call[c].got = NoBytes
              /\ call[c].set_result = "True")
          => /\ call[c].calls = 1
             /\ call[c].ret = [kind |-> "value", v |-> call[c].result]
             /\ call[c].key \in DOMAIN store
             /\ store[call[c].key].bytes = pickle_dumps(call[c].result)
    /\ \A k \in DOMAIN store :
          k \in DOMAIN lastw /\ store[k].bytes = pickle_dumps(lastw[k])

\* Two callers missed on one key; the other has written "a", and this one
\* then wrote "b".
C9_Witness ==
    \E c \in Callers :
        /\ Done(c, "get_or_compute") /\ ~call[c].getfail /\ call[c].got = NoBytes
        /\ call[c].raced /\ call[c].set_result = "True" /\ call[c].result = "b"
        /\ store[call[c].key].bytes = pickle_dumps("b")

\* What each adapter method returns when a backend call of it raised.
FailureIndicator(r) ==
    CASE r.op = "set" -> r.ret = [kind |-> "bool", b |-> FALSE]
      [] r.op = "get" -> r.ret = [kind |-> "value", v |-> PyNone]
      [] r.op = "invalidate_pattern" -> r.ret = [kind |-> "int", n |-> 0]
      [] r.op = "clear_all_cache" -> r.ret = [kind |-> "int", n |-> 0]
      [] r.op = "health_check" -> r.ret.kind = "health" /\ r.ret.status = "unhealthy"
      [] OTHER -> TRUE

AdapterCall(c) ==
    /\ call[c].pc = "done"
    /\ call[c].op \in {"set", "get", "invalidate_pattern", "clear_all_cache",
                       "health_check", "get_stats"}

\* C10 as stated: when a backend call raises, every adapter method returns its
\* failure indicator, get_stats {connected: false, error}, and none raises.
C10_EveryFailureIndicated ==
    \A c \in Callers :
        (AdapterCall(c) /\ call[c].failed)
        => /\ call[c].ret.kind # "raise"
           /\ FailureIndicator(call[c])
           /\ call[c].op = "get_stats"
                 => (~call[c].ret.connected /\ call[c].ret.error)

\* C10, amended: as above, except that get_stats returns {connected: false,
\* error} when info() or a keys() call raises, and {connected: true} with a
\* hit rate of 0.0 when only the hit-rate query raises.
C10_FailuresDegrade ==
    \A c \in Callers :
        (AdapterCall(c) /\ call[c].failed)
        => /\ call[c].ret.kind # "raise"
           /\ FailureIndicator(call[c])
           /\ (call[c].op = "get_stats" /\ call[c].cat \in {"info", "keys"})
                 => (~call[c].ret.connected /\ call[c].ret.error)
           /\ (call[c].op = "get_stats" /\ call[c].cat = "hit_rate")
                 => (call[c].ret.connected /\ ~call[c].ret.hit_rate_read)

C10_Witness ==
    /\ \E c \in Callers : Done(c, "get") /\ call[c].failed /\ call[c].prior # Absent
                          /\ call[c].ret = [kind |-> "value", v |-> PyNone]

\* C12: in invalidate_workspace and invalidate_gateway_cache a pattern whose
\* delete failed counts 0 and the loop goes on: every pattern of the list is
\* attempted, and the count returned is the number of entries removed.
C12_InvalidationPartialFailure ==
    \A c \in Callers :
        (Done(c, "invalidate_workspace") \/ Done(c, "invalidate_gateway_cache"))
        => /\ call[c].idx = Len(call[c].patterns)
           /\ call[c].ret = [kind |-> "int", n |-> Cardinality(call[c].deleted)]

\* An earlier pattern's backend call raised, and the last pattern of the
\* list still removed its entry.
C12_Witness ==
    \E c \in Callers :
        /\ Done(c, "invalidate_workspace") /\ call[c].failed
        /\ \E k \in call[c].deleted : KeyCategory(k) = "dashboard_summary"
        /\ call[c].ret.n >= 1

\* The categories clear_microtendencias_cache names.
MicrotendenciasCategories ==
    {"microtendencias_dashboard", "dashboard_summary", "microtendencias_trends",
     "microtendencias_gateway_performance"}

\* C11: clear_microtendencias_cache without workspace_id leaves no entry of
\* the group's categories; with workspace_id = W it leaves none of workspace
\* W and removes no entry derived for another workspace.
C11_ClearHonoursScope ==
    \A c \in Callers :
        (Done(c, "clear_microtendencias_cache") /\ ~call[c].failed /\ ~call[c].dirty)
        => IF call[c].scope = None
           THEN \A k \in DOMAIN store : KeyCategory(k) \notin MicrotendenciasCategories
           ELSE /\ \A k \in KeysOf(MicrotendenciasCategories,
                                    OfWorkspace(call[c].scope.i)) :
                      k \notin DOMAIN store
                /\ \A k \in KeysOf(MicrotendenciasCategories,
                                    NotOfWorkspace(call[c].scope.i)) :
                      k \notin call[c].deleted

\* C13: a backend failure on one pattern of clear_microtendencias_cache does
\* not stop the loop: every pattern is attempted, and the count returned is
\* the number of entries the call removed.
C13_ClearPartialFailure ==
    \A c \in Callers :
        Done(c, "clear_microtendencias_cache")
        => /\ call[c].idx = Len(call[c].patterns)
           /\ call[c].ret = [kind |-> "int", n |-> Cardinality(call[c].deleted)]

\* C14: when the data source returns a value for exactly the players it is
\* asked for, batch_cache_player_timelines returns a mapping over exactly the
\* requested players, with the stored value of each player found in the
\* cache and the data source's value of each other player.
C14_BatchComplete ==
    \A c \in Callers :
        (Done(c, "batch_cache_player_timelines")
            /\ (call[c].asked = <<>> \/ DOMAIN call[c].data = Range(call[c].missing)))
        => /\ call[c].ret.kind = "map"
           /\ DOMAIN call[c].ret.m = Range(call[c].ids)
           /\ \A id \in Range(call[c].ids) :
                 call[c].ret.m[id] = IF call[c].seen[id] # Absent
                                     THEN call[c].seen[id] ELSE call[c].data[id]

\* A request that repeats a player, with one player stored and one not.
C14_Witness ==
    \E c \in Callers :
        /\ Done(c, "batch_cache_player_timelines")
        /\ call[c].ids = <<"p1", "p2", "p1">>
        /\ call[c].seen = ("p1" :> Absent) @@ ("p2" :> "a")
        /\ call[c].ret = [kind |-> "map", m |-> ("p1" :> "x") @@ ("p2" :> "a")]

\* C15: one call of batch_cache_player_timelines invokes the data source at
\* most once: not at all when every requested player was found, otherwise
\* once with the players that missed, each of them once and none that hit.
C15_BatchOnce ==
    \A c \in Callers :
        call[c].op = "batch_cache_player_timelines"
        => /\ Len(call[c].asked) <= 1
           /\ call[c].calls = Len(call[c].asked)
           /\ call[c].pc = "done"
                 => IF Range(call[c].ids) \subseteq DOMAIN call[c].hits
                    THEN call[c].asked = <<>>
                    ELSE /\ Len(call[c].asked) = 1
                         /\ NoRepeats(call[c].asked[1])
                         /\ Range(call[c].asked[1])
                               = Range(call[c].ids) \ DOMAIN call[c].hits

\* A repeated player missed and is asked for once; the player that hit is
\* not asked for.
C15_Witness ==
    \E c \in Callers :
        /\ Done(c, "batch_cache_player_timelines")
        /\ call[c].ids = <<"p1", "p2", "p1">>
        /\ DOMAIN call[c].hits = {"p2"}
        /\ call[c].asked = << <<"p1">> >>

\* C20 as stated: after batch_cache_player_timelines returns, get on the key
\* of every player that missed and that the data source returned yields that
\* value, stored with the player_timeline TTL of 3600 s, and the entries of
\* the players that hit are not written.
C20_BatchPopulatesAlways ==
    \A c \in Callers :
        (Done(c, "batch_cache_player_timelines") /\ call[c].ret.kind = "map")
        => /\ \A id \in Range(call[c].missing) \cap DOMAIN call[c].data :
                 LET k == timeline_key(call[c].W, id)
                 IN /\ k \in DOMAIN store
                    /\ get(store, k, now, FALSE) = call[c].data[id]
                    /\ store[k].ttl = 3600
           /\ \A id \in DOMAIN call[c].hits : id \notin call[c].wrote

\* C20, amended: the players written are those the data source returned and
\* whose set succeeded, all of them when no backend call failed; unless
\* another caller wrote meanwhile, get on the key of each yields the data
\* source's value, stored with the player_timeline TTL of 3600 s; the entry
\* of a player that hit is written only if the data source returned a value
\* for it.
C20_BatchPopulates ==
    \A c \in Callers :
        (Done(c, "batch_cache_player_timelines") /\ call[c].ret.kind = "map")
        => /\ call[c].wrote \subseteq DOMAIN call[c].data
           /\ ~call[c].failed => call[c].wrote = DOMAIN call[c].data
           /\ ~call[c].dirty
                 => \A id \in call[c].wrote :
                       LET k == timeline_key(call[c].W, id)
                       IN /\ k \in DOMAIN store
                          /\ get(store, k, now, FALSE) = call[c].data[id]
                          /\ store[k].ttl = 3600
           /\ \A id \in DOMAIN call[c].hits \ DOMAIN call[c].data :
                 /\ id \notin call[c].wrote
                 /\ ~call[c].dirty
                       => Prior(timeline_key(call[c].W, id)) = call[c].hits[id]

C20_Witness ==
    \E c \in Callers :
        /\ Done(c, "batch_cache_player_timelines") /\ call[c].ret.kind = "map"
        /\ ~call[c].failed /\ ~call[c].dirty
        /\ DOMAIN call[c].hits = {"p1"} /\ DOMAIN call[c].data = {"p2"}
        /\ store[timeline_key(1, "p2")].bytes = pickle_dumps(call[c].data["p2"])
        /\ store[timeline_key(1, "p1")].ttl = DefaultTtl

\* C16: when set(k, v, ttl) has returned True, a get(k) right after it
\* returns v, whatever was under k before; and a get that finds an entry
\* returns the value of the last set on its key, whole.
C16_RoundTrip ==
    \A c \in Callers :
        /\ (Done(c, "set") /\ call[c].set_result = "True")
           => /\ get(store, call[c].key, now, FALSE) = call[c].result
              /\ store[call[c].key].bytes = pickle_dumps(call[c].result)
        /\ (Done(c, "get") /\ ~call[c].getfail /\ call[c].prior # Absent)
           => call[c].ret = [kind |-> "value", v |-> call[c].prior]

\* set("b") replaced an entry that held "a".
C16_Witness ==
    \E c \in Callers :
        /\ Done(c, "set") /\ call[c].set_result = "True"
        /\ call[c].prior = "a" /\ call[c].result = "b"
        /\ get(store, call[c].key, now, FALSE) = "b"

\* C17: an entry written with ttl t at time w is readable at every time
\* before w + t and gone from w + t on; a get_or_compute whose key has
\* expired misses and invokes the compute function.
C17_Expiration ==
    /\ [](\A c \in Callers :
             (call[c].op = "get_or_compute" /\ call[c].expired)
             => /\ call[c].cached = PyNone
                /\ call[c].pc = "done" => call[c].calls = 1)
    /\ [][/\ \A k \in DOMAIN store :
               (redis_get(store', k, now') # NoBytes) <=> (now' < store[k].exp)
          /\ \A c \in Callers :
               (call[c].pc = "goc_set" /\ call'[c].set_result = "True")
               => store'[call[c].key].exp
                    = now + cache_ttl(call[c].cat, call[c].ttl)]_vars

\* An entry written with ttl 1 expired, and the next get_or_compute on its
\* key computed again.
C17_Witness ==
    \E c \in Callers :
        /\ Done(c, "get_or_compute") /\ call[c].expired /\ ~call[c].getfail
        /\ call[c].calls = 1 /\ call[c].ret = [kind |-> "value", v |-> "b"]

HasNull(kw) == \E n \in DOMAIN kw : kw[n] = None

\* C18: a parameter mapping extended with parameters whose value is None
\* derives the same key; a get_or_compute called with a None parameter looks
\* up that key and, when the entry is there, returns it without computing.
C18_NullOmission ==
    /\ \A cat \in PolicyCategories, kw \in PolicyKwargs :
          \A extra \in SUBSET (Range(SortedNames) \ DOMAIN kw) :
             _generate_cache_key(cat, kw)
                = _generate_cache_key(cat, [n \in extra |-> None] @@ kw)
    /\ \A c \in Callers :
          (Done(c, "get_or_compute") /\ HasNull(call[c].kw)
              /\ call[c].prior # Absent)
          => (call[c].calls = 0
              /\ call[c].ret = [kind |-> "value", v |-> call[c].prior])

\* A call that passes gateway_id = None hits an entry stored under the key
\* of the mapping without gateway_id.
C18_Witness ==
    \E c \in Callers :
        /\ Done(c, "get_or_compute")
        /\ call[c].kw = ("workspace_id" :> PyInt(1)) @@ ("gateway_id" :> None)
        /\ call[c].key = _generate_cache_key(call[c].cat, ("workspace_id" :> PyInt(1)))
        /\ call[c].calls = 0 /\ call[c].ret = [kind |-> "value", v |-> "a"]

\* C19: an entry get_or_compute stores on a miss expires after the caller's
\* ttl when one is supplied, else after the category's ttl_settings value,
\* else after 300 s.
C19_TtlSelection ==
    \A c \in Callers :
        (Done(c, "get_or_compute") /\ call[c].set_result = "True")
        => store[call[c].key].ttl
             = IF call[c].ttl # None THEN call[c].ttl.i
               ELSE IF call[c].cat \in DOMAIN ttl_settings
                    THEN ttl_settings[call[c].cat]
               ELSE 300

\* C21: get on a key whose bytes do not unpickle returns None and does not
\* raise; get_or_compute on such a key invokes the compute function, returns
\* its result, and the result it stores replaces the undecodable bytes.
C21_UndecodableIsMiss ==
    \A c \in Callers :
        /\ (Done(c, "get") /\ call[c].got = Garbage)
           => call[c].ret = [kind |-> "value", v |-> PyNone]
        /\ (call[c].op = "get_or_compute" /\ call[c].got = Garbage)
           => /\ call[c].cached = PyNone
              /\ call[c].pc = "done"
                    => /\ call[c].calls = 1
                       /\ call[c].computed = "returned"
                             => call[c].ret = [kind |-> "value", v |-> call[c].result]
                       /\ call[c].set_result = "True"
                             => store[call[c].key].bytes
                                  = pickle_dumps(call[c].result)

C21_Witness ==
    \E c \in Callers :
        /\ Done(c, "get_or_compute") /\ call[c].got = Garbage
        /\ call[c].calls = 1 /\ call[c].ret = [kind |-> "value", v |-> "a"]
        /\ store[call[c].key].bytes = pickle_dumps("a")

\* C22: the delete of invalidate_pattern removes the keys its KEYS call
\* enumerated and no other: the count returned is the number of those keys
\* still live at the delete, and an entry written under a matching key after
\* the enumeration stays in the store.
C22_InvalidateNotAtomic ==
    [][\A c \in Callers :
          (call[c].op = "invalidate_pattern" /\ call[c].pc = "inv_del"
              /\ call'[c].pc = "done" /\ ~call'[c].failed)
          => /\ DOMAIN store' = DOMAIN store \ call[c].keys
             /\ \A k \in DOMAIN store' : store'[k] = store[k]
             /\ call'[c].ret
                  = [kind |-> "int", n |-> Cardinality(call[c].keys \cap DOMAIN store)]]_vars

\* invalidate_pattern has returned a count of 1, and an entry a
\* get_or_compute wrote after the enumeration matches the pattern and is in
\* the store.
C22_Witness ==
    \E c \in Callers :
        /\ Done(c, "invalidate_pattern") /\ ~call[c].failed /\ call[c].dirty
        /\ call[c].ret = [kind |-> "int", n |-> 1]
        /\ \E k \in DOMAIN store :
              /\ glob_match(call[c].patterns[1], k)
              /\ store[k].bytes = pickle_dumps("a")

\* C23: the step of get, and the lookup step of get_or_compute, leave the
\* store as it was, expiry included; a get_or_compute that hit has written
\* nothing; an entry is gone at the expiry its write gave it, however many
\* reads happened before.
C23_ReadsLeaveStore ==
    /\ [](\A c \in Callers :
             (Done(c, "get_or_compute") /\ call[c].calls = 0)
             => (call[c].writes = 0 /\ call[c].set_result = ""))
    /\ [][/\ \A c \in Callers :
               (call[c].pc = "idle"
                   /\ call'[c].op \in {"get", "get_or_compute"})
               => store' = store
          /\ \A k \in DOMAIN store :
               (k \in DOMAIN store') <=> (now' < store[k].exp)]_vars

\* A get_or_compute hit, at time 1 or later, an entry written at time 0:
\* the entry's expiry is still the one its write gave it.
C23_Witness ==
    \E c \in Callers :
        /\ Done(c, "get_or_compute") /\ call[c].calls = 0
        /\ call[c].ret = [kind |-> "value", v |-> "a"]
        /\ now >= 1
        /\ store[call[c].key].exp = store[call[c].key].ttl

====
